---- MODULE Spec2Model ----
(***************************************************************************)
(* Model of the agent template: the tool registry (orchestration/tools.py) *)
(* and the agent managers (orchestration/agent.py).                        *)
(***************************************************************************)
EXTENDS Integers, Sequences, FiniteSets, TLC

VARIABLES
    SERP_API_KEY,      \* tools.py module global, read once at import
    DATA_STORE_ID,     \* tools.py module global, read once at import
    returned,          \* history of get_tools calls: <<[industry_type, tools]>>
    cls,               \* the concrete manager class being constructed
    config,            \* self.prompt .. self.verbose (agent.py 72-82)
    tools,             \* self.tools
    model_obj,         \* self.model_obj
    agent_executor,    \* self.agent_executor
    phase,             \* how far __init__ has got
    steps,             \* the construction steps invoked so far, in order
    origin,            \* the error an external constructor raised, if any
    raised,            \* the exception that left __init__, if any
    manager,           \* TRUE once the caller holds the constructed manager
    gens,              \* the generators stream_query has returned
    printed,           \* the lines written to standard output
    requests,          \* server.py: the POST /chats requests and their responses
    INTEGRATION_TEST,  \* the environment variable retriever.py reads
    retriever,         \* tools.py module global (line 40)
    compressor,        \* tools.py module global (line 45)
    contacted,         \* the managed services a retrieve_info call has reached
    retrieved          \* history of retrieve_info calls and their results

toolVars == <<SERP_API_KEY, DATA_STORE_ID, returned>>
ctorVars ==
    <<cls, config, tools, model_obj, agent_executor, phase, steps, origin,
      raised, manager>>
streamVars == <<gens, printed>>
serverVars == <<requests>>
ragVars == <<INTEGRATION_TEST, retriever, compressor, contacted, retrieved>>
vars == <<toolVars, ctorVars, streamVars, serverVars, ragVars>>

\* ------------------------------------------------------------------ bounds
MaxCalls == 2
MaxGens == 2
MaxChunks == 3
MaxRequests == 2
MaxQueries == 2

\* ------------------------------------------------------- tool registry
\* Python's None where an object is expected, and as an industry selector.
None == [type |-> "NoneType"]
NoSelector == "<None>"

\* A process environment variable is absent or holds a string.
Absent == "<absent>"
EnvValues == {Absent, "unset", "", "configured"}

\* os.environ.get(name, default) / os.getenv(name, default)
os_environ_get(value, default) == IF value = Absent THEN default ELSE value

\* app.orchestration.enums.IndustryType values
FINANCE_INDUSTRY == "finance"
HEALTHCARE_INDUSTRY == "healthcare"
RETAIL_INDUSTRY == "retail"

\* The selectors a caller may pass: the enum values, near misses, none.
IndustrySelectors ==
    {FINANCE_INDUSTRY, HEALTHCARE_INDUSTRY, RETAIL_INDUSTRY,
     "Finance", "automotive", NoSelector}

\* tools_list = []
tools_list_kept ==
    IF returned = <<>> THEN <<>> ELSE returned[Len(returned)].tools
tools_list_new == <<>>

\* if / elif on the industry selector
industry_tools_both(tools_list, industry_type) ==
    LET t1 == IF industry_type # NoSelector /\ industry_type # RETAIL_INDUSTRY
              THEN Append(tools_list, "YahooFinanceNewsTool") ELSE tools_list
    IN  IF industry_type = HEALTHCARE_INDUSTRY
        THEN Append(t1, "medical_publications_tool") ELSE t1
industry_tools(tools_list, industry_type) ==
    IF industry_type = FINANCE_INDUSTRY
    THEN Append(tools_list, "YahooFinanceNewsTool")
    ELSE IF industry_type = HEALTHCARE_INDUSTRY
         THEN Append(tools_list, "medical_publications_tool")
         ELSE tools_list

SerpTools ==
    <<"google_search_tool", "google_scholar_tool",
      "google_trends_tool", "google_finance_tool">>

\* if SERP_API_KEY != "unset": tools_list.extend([...])
serp_tools_truthy(tools_list) ==
    IF SERP_API_KEY # "" THEN tools_list \o SerpTools ELSE tools_list
serp_tools(tools_list) ==
    IF SERP_API_KEY # "unset" THEN tools_list \o SerpTools ELSE tools_list

\* if DATA_STORE_ID != "unset": tools_list.append(retrieve_info)
data_store_tools(tools_list) ==
    IF DATA_STORE_ID # "unset"
    THEN Append(tools_list, "retrieve_info") ELSE tools_list

\* tools_list.extend([fallback, should_continue])
closing_tools_swapped(tools_list) ==
    tools_list \o <<"should_continue", "fallback">>
closing_tools(tools_list) ==
    tools_list \o <<"fallback", "should_continue">>

\* get_tools(industry_type): the list it returns
get_tools_list(industry_type) ==
    closing_tools(
        data_store_tools(
            serp_tools(
                industry_tools(tools_list_new, industry_type))))

\* Module import: the two gating globals are read from the environment.
ToolsInit ==
    /\ \E v \in EnvValues : SERP_API_KEY = os_environ_get(v, "unset")
    /\ \E v \in EnvValues : DATA_STORE_ID = os_environ_get(v, "unset")
    /\ returned = <<>>

\* One call get_tools(industry_type); the caller keeps what was returned.
get_tools(industry_type) ==
    /\ Len(returned) < MaxCalls
    /\ returned' = Append(returned,
                      [industry_type |-> industry_type,
                       tools |-> get_tools_list(industry_type)])
    /\ UNCHANGED <<SERP_API_KEY, DATA_STORE_ID>>
    /\ UNCHANGED <<ctorVars, streamVars, serverVars, ragVars>>

\* ------------------------------------------------- agent managers
LangChainPrebuiltAgentManager == "LangChainPrebuiltAgentManager"
LangGraphPrebuiltAgentManager == "LangGraphPrebuiltAgentManager"
ManagerClasses == {LangChainPrebuiltAgentManager, LangGraphPrebuiltAgentManager}

\* app.orchestration.enums.OrchestrationFramework values
LANGCHAIN_PREBUILT_AGENT == "langchain_prebuilt_agent"
LANGGRAPH_PREBUILT_AGENT == "langgraph_prebuilt_agent"

\* app.orchestration.constants.GEMINI_FLASH_20_LATEST and a name the
\* platform does not know
GEMINI_FLASH_20_LATEST == "gemini-2.0-flash"
UnknownModel == "no-such-model"
ModelNames == {GEMINI_FLASH_20_LATEST, UnknownModel}

\* The subclass constructors: the framework selector is fixed by the class,
\* the other parameters keep their defaults.
subclass_init(c, prompt, industry_type, model_name) ==
    [prompt |-> prompt,
     industry_type |-> industry_type,
     orchestration_framework |->
         IF c = LangChainPrebuiltAgentManager
         THEN LANGCHAIN_PREBUILT_AGENT ELSE LANGGRAPH_PREBUILT_AGENT,
     model_name |-> model_name,
     max_retries |-> 6,
     max_output_tokens |-> None,
     temperature |-> 0,
     top_p |-> None,
     top_k |-> None,
     return_steps |-> FALSE,
     verbose |-> TRUE]

\* The registry agent.py imports, app.orchestration.tools.get_tools, called
\* with the industry selector and the framework selector.
registry_get_tools(industry_type, orchestration_framework) ==
    get_tools_list(industry_type)

\* BaseAgentManager.get_tools
manager_get_tools_no_selector ==
    registry_get_tools(NoSelector, config.orchestration_framework)
manager_get_tools ==
    registry_get_tools(config.industry_type, config.orchestration_framework)

\* What ChatVertexAI(model_name=...) does: returns a client, or raises.
ChatVertexAIErrors == {"NotFound", "ValueError", "PermissionDenied"}
ChatVertexAI_outcomes(model_name) ==
    IF model_name = UnknownModel
    THEN {"NotFound"}
    ELSE {"ok", "ValueError", "PermissionDenied"}

ChatVertexAI_object ==
    [type |-> "ChatVertexAI",
     model_name |-> config.model_name,
     max_retries |-> config.max_retries,
     max_output_tokens |-> config.max_output_tokens,
     temperature |-> config.temperature,
     top_p |-> config.top_p,
     top_k |-> config.top_k,
     verbose |-> config.verbose]

\* An exception object: its class, its message prefix, its __cause__.
Exc(type, message, cause) ==
    [type |-> type, message |-> message, cause |-> cause]

\* The except clauses of get_model_obj, applied to the error e.
get_model_obj_except_wrap_all(e) ==
    Exc("RuntimeError", "Error encountered initalizing model resource.",
        Exc(e, "", None))
get_model_obj_except(e) ==
    IF e = "NotFound"
    THEN Exc("NotFound", "Resource not found.", None)
    ELSE Exc("RuntimeError", "Error encountered initalizing model resource.",
             Exc(e, "", None))

\* What the framework's executor constructors do: build, or raise.
SetUpErrors == {"ValueError"}
set_up_outcomes == {"ok"} \cup SetUpErrors

\* set_up of each class: the executor it returns.
set_up_executor ==
    IF cls = LangChainPrebuiltAgentManager
    THEN [type |-> "AgentExecutor",
          agent |-> [prompt |-> config.prompt, llm |-> model_obj,
                     tools |-> tools],
          tools |-> tools,
          return_intermediate_steps |-> config.return_steps,
          verbose |-> config.verbose]
    ELSE [type |-> "CompiledGraph",
          prompt |-> config.prompt,
          model |-> model_obj,
          tools |-> tools,
          debug |-> config.verbose]

\* No manager exists or is being constructed.
NoManager ==
    /\ cls = "<none>"
    /\ config = None
    /\ tools = None
    /\ model_obj = None
    /\ agent_executor = None
    /\ phase = "Uninitialized"
    /\ steps = <<>>
    /\ origin = None
    /\ raised = None
    /\ manager = FALSE

\* A caller has invoked a concrete class's constructor with the given
\* industry selector: the configuration fields are assigned (agent.py
\* 72-82), nothing else is.
ManagerInit(industries) ==
    /\ \E i \in industries, c \in ManagerClasses, m \in ModelNames :
           /\ cls = c
           /\ config = subclass_init(c, "You are a helpful agent.", i, m)
    /\ tools = None
    /\ model_obj = None
    /\ agent_executor = None
    /\ phase = "Uninitialized"
    /\ steps = <<>>
    /\ origin = None
    /\ raised = None
    /\ manager = FALSE

\* self.tools = self.get_tools()
init_get_tools ==
    /\ phase = "Uninitialized"
    /\ steps' = Append(steps, "get_tools")
    /\ tools' = manager_get_tools
    /\ phase' = "ToolsLoaded"
    /\ UNCHANGED <<cls, config, model_obj, agent_executor, origin, raised,
                   manager>>

\* self.model_obj = self.get_model_obj()
init_get_model_obj_first ==
    /\ phase = "Uninitialized"
    /\ steps' = Append(steps, "get_model_obj")
    /\ \E outcome \in ChatVertexAI_outcomes(config.model_name) :
           IF outcome = "ok"
           THEN /\ model_obj' = ChatVertexAI_object
                /\ phase' = "ModelLoaded"
                /\ UNCHANGED <<origin, raised>>
           ELSE /\ origin' = [step |-> "get_model_obj", error |-> outcome]
                /\ raised' = get_model_obj_except(outcome)
                /\ phase' = "Failed"
                /\ UNCHANGED model_obj
    /\ UNCHANGED <<cls, config, tools, agent_executor, manager>>
init_get_model_obj ==
    /\ phase = "ToolsLoaded"
    /\ steps' = Append(steps, "get_model_obj")
    /\ \E outcome \in ChatVertexAI_outcomes(config.model_name) :
           IF outcome = "ok"
           THEN /\ model_obj' = ChatVertexAI_object
                /\ phase' = "ModelLoaded"
                /\ UNCHANGED <<origin, raised>>
           ELSE /\ origin' = [step |-> "get_model_obj", error |-> outcome]
                /\ raised' = get_model_obj_except(outcome)
                /\ phase' = "Failed"
                /\ UNCHANGED model_obj
    /\ UNCHANGED <<cls, config, tools, agent_executor, manager>>

\* self.agent_executor = self.set_up(); then __init__ returns and the
\* caller holds the manager. An exception of set_up leaves __init__ as is.
init_set_up_swallow ==
    /\ phase = "ModelLoaded"
    /\ steps' = Append(steps, "set_up")
    /\ \E outcome \in set_up_outcomes :
           IF outcome = "ok"
           THEN /\ agent_executor' = set_up_executor
                /\ UNCHANGED origin
           ELSE /\ origin' = [step |-> "set_up", error |-> outcome]
                /\ UNCHANGED agent_executor
    /\ phase' = "ExecutorReady"
    /\ manager' = TRUE
    /\ UNCHANGED <<cls, config, tools, model_obj, raised>>
init_set_up ==
    /\ phase = "ModelLoaded"
    /\ steps' = Append(steps, "set_up")
    /\ \E outcome \in set_up_outcomes :
           IF outcome = "ok"
           THEN /\ agent_executor' = set_up_executor
                /\ phase' = "ExecutorReady"
                /\ manager' = TRUE
                /\ UNCHANGED <<origin, raised>>
           ELSE /\ origin' = [step |-> "set_up", error |-> outcome]
                /\ raised' = Exc(outcome, "", None)
                /\ phase' = "Failed"
                /\ UNCHANGED <<agent_executor, manager>>
    /\ UNCHANGED <<cls, config, tools, model_obj>>
\* ------------------------------------------------------- stream_query
\* The request bodies a caller passes: a list of messages, possibly empty.
Inputs ==
    {[messages |-> <<>>],
     [messages |-> <<"hi", "hello", "and then?">>]}

\* What AgentExecutor.stream yields: dictionaries, some with an "output"
\* key, one of them already holding a "content" key.
LangChainChunks ==
    {[actions |-> "tool call"],
     [output |-> "hello", messages |-> "final"],
     [output |-> "bye", content |-> "stale"]}

\* What the graph's stream(stream_mode="messages") yields: pairs of a
\* message and its metadata.
Message(type, content) == [type |-> type, content |-> content]
LangGraphChunks ==
    {<<Message("AIMessageChunk", "he"), "meta">>,
     <<Message("AIMessage", "hello"), "meta">>,
     <<Message("ToolMessage", "42"), "meta">>,
     <<Message("HumanMessage", "hi"), "meta">>}

\* The classes an object of each message class is an instance of.
Bases(type) ==
    IF type = "AIMessageChunk" THEN {"AIMessageChunk", "AIMessage"}
    ELSE {type}
isinstance(message, classes) == Bases(message.type) \cap classes # {}

\* The errors the executor's stream may raise while it is consumed.
StreamErrors == {"DeadlineExceeded"}

Tuple0(chunk) == chunk[1]

\* The argument of agent_executor.stream in each class; evaluating it
\* raises IndexError in the LangChain class when the list is empty.
stream_args_raises(input) ==
    cls = LangChainPrebuiltAgentManager /\ Len(input.messages) = 0
stream_args(input) ==
    IF cls = LangChainPrebuiltAgentManager
    THEN [input |-> input.messages[1], chat_history |-> Tail(input.messages)]
    ELSE [input |-> input, stream_mode |-> "messages"]

\* except Exception as e: raise RuntimeError(f"Unexpected error. {e}") from e
stream_query_except_reraise(e) == Exc(e, "", None)
stream_query_except(e) ==
    Exc("RuntimeError", "Unexpected error.", Exc(e, "", None))

\* chunk["content"] = chunk["output"]
set_content(chunk) ==
    [k \in DOMAIN chunk \cup {"content"} |->
        IF k = "content" THEN chunk["output"] ELSE chunk[k]]

\* One pass of the loop body of each stream_query over a chunk: what it
\* yields and what it prints.
langchain_body_no_filter(chunk) ==
    [yields |-> <<chunk>>, prints |-> <<>>]
langchain_body(chunk) ==
    IF "output" \in DOMAIN chunk
    THEN [yields |-> <<set_content(chunk)>>, prints |-> <<>>]
    ELSE [yields |-> <<>>, prints |-> <<>>]

langgraph_body_yield_tool(chunk) ==
    LET message == Tuple0(chunk)
    IN  IF isinstance(message, {"AIMessageChunk", "AIMessage", "ToolMessage"})
        THEN [yields |-> <<message>>, prints |-> <<>>]
        ELSE [yields |-> <<>>, prints |-> <<>>]
langgraph_body(chunk) ==
    LET message == Tuple0(chunk)
    IN  IF isinstance(message, {"AIMessageChunk", "AIMessage"})
        THEN [yields |-> <<message>>, prints |-> <<>>]
        ELSE IF isinstance(message, {"ToolMessage"})
             THEN [yields |-> <<>>,
                   prints |-> <<<<"ToolMessage received:", message.content>>>>]
             ELSE [yields |-> <<>>, prints |-> <<>>]

loop_body(chunk) ==
    IF cls = LangChainPrebuiltAgentManager
    THEN langchain_body(chunk) ELSE langgraph_body(chunk)

ExecutorChunks ==
    IF cls = LangChainPrebuiltAgentManager
    THEN LangChainChunks ELSE LangGraphChunks

\* A generator object: not yet made ("unborn"), made and not started,
\* running inside a next() call, suspended at a yield, returned, or ended
\* by an exception. "stream" is the state of the executor's stream the body
\* iterates ("none" before stream is called), "error" the exception raised
\* inside the try block, "last" the result of the latest next().
NewGen ==
    [status |-> "unborn", input |-> None, call |-> None, stream |-> "none",
     consumed |-> <<>>, yielded |-> <<>>, error |-> "none", raised |-> None,
     last |-> "none"]

RECURSIVE SumLen(_, _)
SumLen(g, n) == IF n = 0 THEN 0 ELSE Len(g[n].consumed) + SumLen(g, n - 1)
ChunksStreamed == SumLen(gens, MaxGens)

Running == \E g \in 1..MaxGens : gens[g].status = "running"

StreamInit ==
    /\ gens = [g \in 1..MaxGens |-> NewGen]
    /\ printed = <<>>

\* manager.stream_query(input): returns a generator; no code of the body
\* has run yet.
stream_query_eager(g, input) ==
    /\ manager
    /\ ~Running
    /\ gens[g].status = "unborn"
    /\ \A h \in 1..(g - 1) : gens[h].status # "unborn"
    /\ gens' = [gens EXCEPT
           ![g].status = "created", ![g].input = input,
           ![g].call = IF stream_args_raises(input)
                       THEN None ELSE stream_args(input),
           ![g].stream = "open"]
    /\ UNCHANGED <<printed, ctorVars>>
stream_query(g, input) ==
    /\ manager
    /\ ~Running
    /\ gens[g].status = "unborn"
    /\ \A h \in 1..(g - 1) : gens[h].status # "unborn"
    /\ gens' = [gens EXCEPT ![g].status = "created", ![g].input = input]
    /\ UNCHANGED <<printed, ctorVars>>

\* The consumer asks a generator for its next item: the body starts (the
\* argument of stream is evaluated and stream is called) or resumes after
\* its last yield.
next_item(g) ==
    /\ ~Running
    /\ gens[g].status \in {"created", "suspended"}
    /\ IF gens[g].status = "created" /\ stream_args_raises(gens[g].input)
       THEN gens' = [gens EXCEPT
                ![g].status = "failed",
                ![g].error = "IndexError",
                ![g].raised = stream_query_except("IndexError"),
                ![g].last = "raise"]
       ELSE IF gens[g].status = "created"
            THEN gens' = [gens EXCEPT
                     ![g].status = "running",
                     ![g].call = stream_args(gens[g].input),
                     ![g].stream = "open"]
            ELSE gens' = [gens EXCEPT ![g].status = "running"]
    /\ UNCHANGED <<printed, ctorVars>>

\* The consumer asks a generator that has returned or raised: StopIteration.
next_finished(g) ==
    /\ ~Running
    /\ gens[g].status \in {"done", "failed"}
    /\ gens[g].last # "StopIteration"
    /\ gens' = [gens EXCEPT ![g].last = "StopIteration"]
    /\ UNCHANGED <<printed, ctorVars>>

\* The executor's stream hands the loop its next chunk.
stream_chunk(g, chunk) ==
    /\ gens[g].status = "running"
    /\ ChunksStreamed < MaxChunks
    /\ LET body == loop_body(chunk)
       IN  /\ gens' = [gens EXCEPT
                  ![g].consumed = Append(@, chunk),
                  ![g].yielded = @ \o body.yields,
                  ![g].status =
                      IF body.yields # <<>> THEN "suspended" ELSE "running",
                  ![g].last = IF body.yields # <<>> THEN "yield" ELSE @]
           /\ printed' = printed \o body.prints
    /\ UNCHANGED ctorVars

\* The executor's stream is exhausted: the loop ends, the generator returns.
stream_end(g) ==
    /\ gens[g].status = "running"
    /\ gens' = [gens EXCEPT
           ![g].status = "done",
           ![g].stream = "completed",
           ![g].last = "StopIteration"]
    /\ UNCHANGED <<printed, ctorVars>>

\* The executor's stream raises: except Exception wraps it.
stream_error_reset(g, e) ==
    /\ gens[g].status = "running"
    /\ gens' = [gens EXCEPT
           ![g].status = "failed",
           ![g].stream = "raised",
           ![g].error = e,
           ![g].raised = stream_query_except(e),
           ![g].last = "raise"]
    /\ agent_executor' = None
    /\ UNCHANGED <<printed, cls, config, tools, model_obj, phase, steps,
                   origin, raised, manager>>
stream_error(g, e) ==
    /\ gens[g].status = "running"
    /\ gens' = [gens EXCEPT
           ![g].status = "failed",
           ![g].stream = "raised",
           ![g].error = e,
           ![g].raised = stream_query_except(e),
           ![g].last = "raise"]
    /\ UNCHANGED <<printed, ctorVars>>

\* ------------------------------------------------------------ server
\* The bodies of POST /chats: request.input, an InputChat.
ChatRequests ==
    {[input |-> [messages |-> <<>>, user_id |-> "", session_id |-> ""]],
     [input |-> [messages |-> <<"hi">>, user_id |-> "u1",
                 session_id |-> "s1"]]}

\* A request: not received, being answered, or answered; "body" is the
\* lines its response has carried, "error" what ended the response early.
NewRequest ==
    [status |-> "none", input |-> None, body |-> <<>>, error |-> "none"]

ServerInit == requests = [r \in 1..MaxRequests |-> NewRequest]

\* What the body of stream_event_response yields for a request: every yield
\* statement of the function is commented out.
stream_event_response_yields(input_chat) == <<>>

\* stream_chat_events: the handler calls stream_event_response(...) and
\* returns it wrapped in a StreamingResponse; none of its body has run.
stream_chat_events(r, request) ==
    /\ requests[r].status = "none"
    /\ \A q \in 1..(r - 1) : requests[q].status # "none"
    /\ requests' = [requests EXCEPT
           ![r].status = "responding", ![r].input = request.input]
    /\ UNCHANGED printed

\* The framework drives the object it was given and the body of
\* stream_event_response runs to its end: it dumps and prints the input,
\* and the response carries what it yielded.
stream_event_response(r) ==
    /\ requests[r].status = "responding"
    /\ printed' = Append(printed, requests[r].input)
    /\ requests' = [requests EXCEPT
           ![r].status = "closed",
           ![r].body = @ \o stream_event_response_yields(requests[r].input)]

\* The framework cannot iterate the object it was given (a function without
\* a yield returns a coroutine, not an asynchronous generator): the response
\* ends with an error and the body never runs.
stream_response_fails(r) ==
    /\ requests[r].status = "responding"
    /\ requests' = [requests EXCEPT
           ![r].status = "closed", ![r].error = "TypeError"]
    /\ UNCHANGED printed

\* -------------------------------------------------- retriever adapter
\* top_n of the ranking service
TOP_N == 5

\* What INTEGRATION_TEST may hold in the environment.
FlagValues == {Absent, "TRUE", "true", "1"}

\* get_retriever: a mock whose invoke is lambda x: [] under the flag, the
\* managed search retriever otherwise.
get_retriever_ignore_flag(flag) ==
    [kind |-> "VertexAISearchRetriever", invoke_params |-> <<"input">>]
get_retriever(flag) ==
    IF os_environ_get(flag, "<None>") = "TRUE"
    THEN [kind |-> "MagicMock", invoke_params |-> <<"x">>]
    ELSE [kind |-> "VertexAISearchRetriever", invoke_params |-> <<"input">>]

\* get_compressor: a mock whose compress_documents is
\* lambda documents, query: [] under the flag, the ranking service otherwise.
get_compressor(flag) ==
    IF os_environ_get(flag, "<None>") = "TRUE"
    THEN [kind |-> "MagicMock",
          compress_documents_params |-> <<"documents", "query">>]
    ELSE [kind |-> "VertexAIRank",
          compress_documents_params |-> <<"documents", "query">>]

\* Whether a call with n positional arguments and the keyword arguments
\* kw binds to the parameter list params.
Binds(params, n, kw) ==
    /\ n + Cardinality(kw) = Len(params)
    /\ kw = {params[k] : k \in (n + 1)..Len(params)}

\* The documents of the data store and the queries asked.
Documents == {"d1", "d2"}
Queries == {"what is an ETF?", ""}
DocumentLists ==
    {<<>>} \cup {<<d>> : d \in Documents}
    \cup {l \in {<<d, e>> : d \in Documents, e \in Documents} : l[1] # l[2]}

\* The managed backends: search returns some documents; ranking returns
\* the documents it was given in some order, at most top_n of them.
SearchResults(query) == DocumentLists
RankResults(documents, query) ==
    {l \in DocumentLists :
        /\ Len(l) <= TOP_N
        /\ {l[k] : k \in 1..Len(l)} \subseteq
               {documents[k] : k \in 1..Len(documents)}
        /\ Len(l) = IF Len(documents) < TOP_N THEN Len(documents) ELSE TOP_N}

\* app.rag.templates.format_docs.format(docs=...): one block per document.
format_docs(docs) == [k \in 1..Len(docs) |-> <<"Document", k - 1, docs[k]>>]

\* Module import of tools.py: the flag is read by both constructors.
RetrieverInit(flags) ==
    /\ INTEGRATION_TEST \in flags
    /\ retriever = get_retriever(INTEGRATION_TEST)
    /\ compressor = get_compressor(INTEGRATION_TEST)
    /\ contacted = {}
    /\ retrieved = <<>>

\* retrieve_info(query): search, re-rank, format.
retrieve_info(query) ==
    /\ Len(retrieved) < MaxQueries
    /\ Binds(retriever.invoke_params, 1, {})
    /\ Binds(compressor.compress_documents_params, 0, {"documents", "query"})
    /\ \E retrieved_docs \in
            IF retriever.kind = "MagicMock"
            THEN {<<>>} ELSE SearchResults(query) :
         \E ranked_docs \in
            IF compressor.kind = "MagicMock"
            THEN {<<>>} ELSE RankResults(retrieved_docs, query) :
           /\ retrieved' = Append(retrieved,
                  [query |-> query,
                   formatted_docs |-> format_docs(ranked_docs),
                   ranked_docs |-> ranked_docs])
           /\ contacted' = contacted
                  \cup (IF retriever.kind = "MagicMock"
                        THEN {} ELSE {"search"})
                  \cup (IF compressor.kind = "MagicMock"
                        THEN {} ELSE {"rank"})
    /\ UNCHANGED <<INTEGRATION_TEST, retriever, compressor>>

\* ------------------------------------------------------ specifications
ToolsNext ==
    \E industry_type \in IndustrySelectors : get_tools(industry_type)

\* The registry on its own: the module is imported, callers call get_tools.
InitTools ==
    ToolsInit /\ NoManager /\ StreamInit /\ ServerInit
    /\ RetrieverInit({Absent})
SpecTools == InitTools /\ [][ToolsNext]_vars

ManagerNext ==
    \/ init_get_tools /\ UNCHANGED <<toolVars, streamVars, serverVars, ragVars>>
    \/ init_get_model_obj /\ UNCHANGED <<toolVars, streamVars, serverVars, ragVars>>
    \/ init_set_up /\ UNCHANGED <<toolVars, streamVars, serverVars, ragVars>>

StreamNext ==
    \/ \E g \in 1..MaxGens, input \in Inputs :
           stream_query(g, input) /\ UNCHANGED <<toolVars, serverVars, ragVars>>
    \/ \E g \in 1..MaxGens : next_item(g) /\ UNCHANGED <<toolVars, serverVars, ragVars>>
    \/ \E g \in 1..MaxGens : next_finished(g) /\ UNCHANGED <<toolVars, serverVars, ragVars>>
    \/ \E g \in 1..MaxGens, chunk \in ExecutorChunks :
           stream_chunk(g, chunk)
           /\ UNCHANGED <<toolVars, serverVars, ragVars>>
    \/ \E g \in 1..MaxGens : stream_end(g) /\ UNCHANGED <<toolVars, serverVars, ragVars>>
    \/ \E g \in 1..MaxGens, e \in StreamErrors :
           stream_error(g, e) /\ UNCHANGED <<toolVars, serverVars, ragVars>>

\* Construction on its own: the registry module is imported under any
\* environment, and a constructor is called with any selector.
InitCtor ==
    /\ ToolsInit
    /\ ManagerInit({FINANCE_INDUSTRY, HEALTHCARE_INDUSTRY, "Finance",
                    NoSelector})
    /\ StreamInit
    /\ ServerInit
    /\ RetrieverInit({Absent})
SpecCtor == InitCtor /\ [][ManagerNext]_vars

\* A manager in one deployment (finance, search key configured, no data
\* store): a constructor is called, and the caller streams queries from
\* the manager it got.
Init ==
    /\ SERP_API_KEY = os_environ_get("configured", "unset")
    /\ DATA_STORE_ID = os_environ_get(Absent, "unset")
    /\ returned = <<>>
    /\ ManagerInit({FINANCE_INDUSTRY})
    /\ StreamInit
    /\ ServerInit
    /\ RetrieverInit({Absent})
Next == ManagerNext \/ StreamNext
Spec == Init /\ [][Next]_vars

\* The server: requests to POST /chats arrive and are answered.
ServerNext ==
    \/ \E r \in 1..MaxRequests, request \in ChatRequests :
           /\ stream_chat_events(r, request)
           /\ UNCHANGED <<toolVars, ctorVars, gens, ragVars>>
    \/ \E r \in 1..MaxRequests :
           /\ stream_event_response(r)
           /\ UNCHANGED <<toolVars, ctorVars, gens, ragVars>>
    \/ \E r \in 1..MaxRequests :
           /\ stream_response_fails(r)
           /\ UNCHANGED <<toolVars, ctorVars, gens, ragVars>>
InitServer ==
    ToolsInit /\ NoManager /\ StreamInit /\ ServerInit
    /\ RetrieverInit({Absent})
SpecServer == InitServer /\ [][ServerNext]_vars

\* The retriever adapter: tools.py is imported under some value of the
\* flag, and retrieve_info is called.
RetrieverNext ==
    \E query \in Queries :
        /\ retrieve_info(query)
        /\ UNCHANGED <<toolVars, ctorVars, streamVars, serverVars>>
InitRetriever ==
    ToolsInit /\ NoManager /\ StreamInit /\ ServerInit
    /\ RetrieverInit(FlagValues)
SpecRetriever == InitRetriever /\ [][RetrieverNext]_vars

\* ------------------------------------------------ tool registry: claims
ToolSet(t) == {t[k] : k \in 1..Len(t)}
Count(t, name) == Cardinality({k \in 1..Len(t) : t[k] = name})
IndustryToolNames == {"YahooFinanceNewsTool", "medical_publications_tool"}
GeneralToolNames ==
    ToolSet(SerpTools) \cup {"retrieve_info", "fallback", "should_continue"}

\* C1: every list get_tools returns ends with fallback immediately followed
\* by should_continue; each is present exactly there, as the last two
\* elements, fallback first.
C1_FallbackThenStopLast ==
    \A i \in 1..Len(returned) :
        LET t == returned[i].tools
            n == Len(t)
        IN  /\ n >= 2
            /\ t[n - 1] = "fallback"
            /\ t[n] = "should_continue"
            /\ Count(t, "fallback") = 1
            /\ Count(t, "should_continue") = 1

\* C1 witness: a call with an industry tool, the web tools and the
\* retrieval tool all present has returned.
C1_Witness ==
    \E i \in 1..Len(returned) :
        /\ Len(returned[i].tools) = 8
        /\ returned[i].industry_type = FINANCE_INDUSTRY

\* C2: with SERP_API_KEY = "unset" none of the four web tools is returned,
\* for any selector; with DATA_STORE_ID = "unset" retrieve_info is not
\* returned.
C2_GatedToolsNeedConfig ==
    \A i \in 1..Len(returned) :
        LET s == ToolSet(returned[i].tools)
        IN  /\ SERP_API_KEY = "unset" => s \cap ToolSet(SerpTools) = {}
            /\ DATA_STORE_ID = "unset" => "retrieve_info" \notin s

\* C2 witness: calls returned under an unset search key (with the data
\* store configured) and under an unset data store (with the key set to
\* the empty string).
C2_Witness ==
    /\ Len(returned) = MaxCalls
    /\ \/ SERP_API_KEY = "unset" /\ DATA_STORE_ID = "configured"
       \/ SERP_API_KEY = "" /\ DATA_STORE_ID = "unset"
    /\ returned[1].industry_type = HEALTHCARE_INDUSTRY

\* C3: at most one industry tool is returned, and it is first: finance
\* gives the finance news tool, healthcare the medical publications tool,
\* any other selector gives general-purpose tools only.
C3_OneIndustryToolByExactMatch ==
    \A i \in 1..Len(returned) :
        LET t == returned[i].tools
            sel == returned[i].industry_type
            ind == {k \in 1..Len(t) : t[k] \in IndustryToolNames}
        IN  /\ Cardinality(ind) <= 1
            /\ ind \subseteq {1}
            /\ sel = FINANCE_INDUSTRY => t[1] = "YahooFinanceNewsTool"
            /\ sel = HEALTHCARE_INDUSTRY => t[1] = "medical_publications_tool"
            /\ sel \notin {FINANCE_INDUSTRY, HEALTHCARE_INDUSTRY} =>
                   ToolSet(t) \subseteq GeneralToolNames

\* C3 witness: a healthcare call and a call with a selector that differs
\* from the finance value only in case have both returned.
C3_Witness ==
    /\ \E i \in 1..Len(returned) :
           returned[i].industry_type = HEALTHCARE_INDUSTRY
    /\ \E i \in 1..Len(returned) : returned[i].industry_type = "Finance"

\* C4: two calls with the same selector return the same ordered sequence
\* of tool names.
C4_SameSelectorSameTools ==
    \A i, j \in 1..Len(returned) :
        returned[i].industry_type = returned[j].industry_type
            => returned[i].tools = returned[j].tools

\* C4 witness: the same selector has been passed twice, with every gated
\* tool configured.
C4_Witness ==
    /\ Len(returned) >= 2
    /\ returned[1].industry_type = returned[2].industry_type
    /\ Len(returned[2].tools) > 2

\* ------------------------------------------------ construction: claims
ConstructionSteps == <<"get_tools", "get_model_obj", "set_up">>
IsPrefix(p, q) == Len(p) <= Len(q) /\ SubSeq(q, 1, Len(p)) = p

\* The prompt, model client and tools an executor was built from.
BuiltFrom(e) ==
    IF e.type = "AgentExecutor"
    THEN [prompt |-> e.agent.prompt, llm |-> e.agent.llm,
          agent_tools |-> e.agent.tools, tools |-> e.tools]
    ELSE [prompt |-> e.prompt, llm |-> e.model,
          agent_tools |-> e.tools, tools |-> e.tools]

\* C5 as stated: when the NotFound failure leaves the constructor, the
\* tool set has not been resolved and set_up has not been invoked.
C5_NotFoundBeforeTools ==
    (raised # None /\ raised.type = "NotFound") =>
        /\ tools = None
        /\ "get_tools" \notin ToolSet(steps)
        /\ "set_up" \notin ToolSet(steps)

\* C5 amended: construction with an unresolvable model name never gets
\* past the model client; it fails with NotFound, raised after the tool set
\* has been resolved (get_tools ran first) and before set_up is invoked or
\* an executor exists.
C5_NotFoundAfterToolsBeforeSetUp ==
    /\ config.model_name = UnknownModel =>
           /\ phase \in {"Uninitialized", "ToolsLoaded", "Failed"}
           /\ phase = "Failed" => raised.type = "NotFound"
    /\ (raised # None /\ raised.type = "NotFound") =>
           /\ steps = <<"get_tools", "get_model_obj">>
           /\ tools # None
           /\ model_obj = None
           /\ agent_executor = None
           /\ ~manager

\* C5 witness: the constructor has failed with NotFound on the unknown
\* model name, holding a resolved, non-trivial tool set.
C5_Witness ==
    /\ config.model_name = UnknownModel
    /\ raised # None /\ raised.type = "NotFound"
    /\ tools # None /\ Len(tools) > 2

\* C6: construction runs get_tools, get_model_obj, set_up in that order,
\* each at most once; each phase holds exactly the results of the steps
\* before it; the tools are the registry's answer for the industry and
\* framework selectors; the executor is built from the prompt, model client
\* and tools resolved before set_up ran.
C6_ConstructionOrder ==
    /\ IsPrefix(steps, ConstructionSteps)
    /\ phase = "Uninitialized" =>
           steps = <<>> /\ tools = None /\ model_obj = None
           /\ agent_executor = None
    /\ phase = "ToolsLoaded" =>
           steps = <<"get_tools">> /\ model_obj = None
           /\ agent_executor = None
    /\ phase = "ModelLoaded" =>
           steps = <<"get_tools", "get_model_obj">>
           /\ model_obj # None /\ agent_executor = None
    /\ phase = "ExecutorReady" =>
           /\ steps = ConstructionSteps
           /\ model_obj # None
           /\ agent_executor # None
           /\ BuiltFrom(agent_executor) =
                  [prompt |-> config.prompt, llm |-> model_obj,
                   agent_tools |-> tools, tools |-> tools]
    /\ phase \in {"ToolsLoaded", "ModelLoaded", "ExecutorReady"} =>
           tools = registry_get_tools(config.industry_type,
                                      config.orchestration_framework)

\* C6 witness: a healthcare manager of the graph class is fully built.
C6_Witness ==
    /\ phase = "ExecutorReady"
    /\ cls = LangGraphPrebuiltAgentManager
    /\ config.industry_type = HEALTHCARE_INDUSTRY
    /\ tools[1] = "medical_publications_tool"

\* C7: once the model client constructor or set_up has raised, the
\* constructor has failed with an exception for its caller, the failing
\* step is the last one run, no executor is assigned, the caller holds no
\* manager and no stream_query generator exists; an exception of set_up
\* reaches the caller as it is.
C7_FailureAbortsConstruction ==
    origin # None =>
        /\ raised # None
        /\ phase = "Failed"
        /\ steps[Len(steps)] = origin.step
        /\ agent_executor = None
        /\ ~manager
        /\ \A g \in 1..MaxGens : gens[g].status = "unborn"
        /\ origin.step = "set_up" =>
               raised.type = origin.error /\ model_obj # None
        /\ origin.step = "get_model_obj" => model_obj = None

\* C7 witness: set_up has raised after the tools and the model client
\* were built.
C7_Witness ==
    /\ origin # None /\ origin.step = "set_up"
    /\ model_obj # None /\ tools # None
    /\ phase = "Failed"

\* C8: a NotFound of the model client constructor leaves get_model_obj as
\* a NotFound; any other error leaves it as a RuntimeError whose cause is
\* the original error.
C8_FailureKindPreserved ==
    (origin # None /\ origin.step = "get_model_obj") =>
        /\ raised # None
        /\ origin.error = "NotFound" =>
               raised.type = "NotFound" /\ raised.cause = None
        /\ origin.error # "NotFound" =>
               /\ raised.type = "RuntimeError"
               /\ raised.cause # None
               /\ raised.cause.type = origin.error

\* C8 witness: the client constructor was refused permission and the
\* caller got the wrapped error.
C8_Witness ==
    /\ origin # None /\ origin.error = "PermissionDenied"
    /\ raised # None /\ raised.type = "RuntimeError"

\* ----------------------------------------------------- streaming: claims
RECURSIVE OutputChunks(_)
OutputChunks(chunks) ==
    IF chunks = <<>> THEN <<>>
    ELSE IF "output" \in DOMAIN Head(chunks)
         THEN <<Head(chunks)>> \o OutputChunks(Tail(chunks))
         ELSE OutputChunks(Tail(chunks))

\* C9: in the LangChain class a generator has yielded exactly the consumed
\* chunks that carry "output", in order, one item per such chunk, each item
\* the chunk with "content" equal to its "output" and its other keys kept.
C9_LangChainYieldsOutputChunks ==
    cls = LangChainPrebuiltAgentManager =>
        \A g \in 1..MaxGens :
            LET src == OutputChunks(gens[g].consumed)
                out == gens[g].yielded
            IN  /\ Len(out) = Len(src)
                /\ \A k \in 1..Len(out) :
                       /\ out[k]["content"] = src[k]["output"]
                       /\ out[k]["output"] = src[k]["output"]
                       /\ DOMAIN out[k] = DOMAIN src[k] \cup {"content"}
                       /\ \A f \in DOMAIN src[k] \ {"content"} :
                              out[k][f] = src[k][f]

\* C9 witness: three chunks were streamed, only the last with an "output"
\* ("hello"); the stream ended and exactly one item, with content "hello",
\* was yielded.
C9_Witness ==
    /\ cls = LangChainPrebuiltAgentManager
    /\ \E g \in 1..MaxGens :
           /\ gens[g].status = "done"
           /\ Len(gens[g].consumed) = 3
           /\ "output" \notin DOMAIN gens[g].consumed[1]
           /\ "output" \notin DOMAIN gens[g].consumed[2]
           /\ "output" \in DOMAIN gens[g].consumed[3]
           /\ Len(gens[g].yielded) = 1
           /\ gens[g].yielded[1]["content"] = "hello"

AssistantTypes == {"AIMessageChunk", "AIMessage"}

RECURSIVE AssistantMessages(_)
AssistantMessages(chunks) ==
    IF chunks = <<>> THEN <<>>
    ELSE IF Head(chunks)[1].type \in AssistantTypes
         THEN <<Head(chunks)[1]>> \o AssistantMessages(Tail(chunks))
         ELSE AssistantMessages(Tail(chunks))

ToolResults(chunks) ==
    Cardinality({k \in 1..Len(chunks) : chunks[k][1].type = "ToolMessage"})

RECURSIVE ToolResultsOf(_)
ToolResultsOf(n) ==
    IF n = 0 THEN 0
    ELSE ToolResults(gens[n].consumed) + ToolResultsOf(n - 1)

\* C10: in the LangGraph class a generator has yielded, unchanged and in
\* order, the leading messages of exactly the consumed units whose leading
\* message is an AIMessageChunk or an AIMessage; each tool result has
\* printed one line and yielded nothing; a generator whose stream completed
\* has returned without an exception.
C10_LangGraphYieldsAssistantMessages ==
    cls = LangGraphPrebuiltAgentManager =>
        /\ \A g \in 1..MaxGens :
               /\ gens[g].yielded = AssistantMessages(gens[g].consumed)
               /\ gens[g].status = "done" =>
                      gens[g].raised = None /\ gens[g].last = "StopIteration"
        /\ Len(printed) = ToolResultsOf(MaxGens)
        /\ \A k \in 1..Len(printed) : printed[k][1] = "ToolMessage received:"

\* C10 witness: an assistant delta and then a tool result were streamed
\* and the stream ended: one item, the delta, was yielded and one line
\* printed.
C10_Witness ==
    /\ cls = LangGraphPrebuiltAgentManager
    /\ \E g \in 1..MaxGens :
           /\ gens[g].status = "done"
           /\ Len(gens[g].consumed) = 2
           /\ gens[g].consumed[1][1].type = "AIMessageChunk"
           /\ gens[g].consumed[2][1].type = "ToolMessage"
           /\ gens[g].yielded = <<gens[g].consumed[1][1]>>
    /\ Len(printed) = 1

\* C11: in both classes a generator that met an exception inside its try
\* block (raised by the executor's stream, or IndexError on an empty
\* message list in the LangChain class) has raised a RuntimeError whose
\* cause is that exception, and it raised for no other reason; from then on
\* it stays failed and what it had yielded stays as it was, nothing added.
C11_StreamErrorsWrapped ==
    /\ [](\A g \in 1..MaxGens :
            /\ gens[g].error # "none" <=> gens[g].status = "failed"
            /\ gens[g].status = "failed" <=> gens[g].raised # None
            /\ gens[g].status = "failed" =>
                   /\ gens[g].raised.type = "RuntimeError"
                   /\ gens[g].raised.cause # None
                   /\ gens[g].raised.cause.type = gens[g].error
            /\ (gens[g].status \notin {"unborn", "created"}
                /\ cls = LangChainPrebuiltAgentManager
                /\ gens[g].input.messages = <<>>) =>
                   gens[g].error = "IndexError")
    /\ [][\A g \in 1..MaxGens :
            /\ IsPrefix(gens[g].yielded, gens'[g].yielded)
            /\ gens[g].status = "failed" =>
                   /\ gens'[g].status = "failed"
                   /\ gens'[g].yielded = gens[g].yielded
                   /\ gens'[g].raised = gens[g].raised]_vars

\* C11 witness: a generator yielded an item, then its stream raised, and
\* the consumer has asked it again since.
C11_Witness ==
    \E g \in 1..MaxGens :
        /\ gens[g].status = "failed"
        /\ gens[g].error \in StreamErrors
        /\ Len(gens[g].yielded) >= 1
        /\ gens[g].last = "StopIteration"


\* The end-of-stream marker object as a line of the response:
\* json.dumps(EndEvent()) + "\n".
EndEventLine == [event |-> "end"]

\* C12: every answered POST /chats request has a response body whose last
\* line is the end-of-stream marker, with no marker before it (the stream
\* emitted the marker and nothing after it).
C12_ResponseEndsWithEndMarker ==
    \A r \in 1..MaxRequests :
        requests[r].status = "closed" =>
            /\ Len(requests[r].body) >= 1
            /\ requests[r].body[Len(requests[r].body)] = EndEventLine
            /\ \A k \in 1..(Len(requests[r].body) - 1) :
                   requests[r].body[k] # EndEventLine

C14_StreamQueryLeavesManager ==
    /\ [](manager =>
            /\ phase = "ExecutorReady"
            /\ steps = ConstructionSteps
            /\ agent_executor # None
            /\ agent_executor = set_up_executor
            /\ BuiltFrom(agent_executor) =
                   [prompt |-> config.prompt, llm |-> model_obj,
                    agent_tools |-> tools, tools |-> tools])
    /\ [][manager =>
            /\ manager'
            /\ cls' = cls
            /\ config' = config
            /\ tools' = tools
            /\ model_obj' = model_obj
            /\ agent_executor' = agent_executor]_vars

\* C14 witness: on one manager a generator has failed on an error of the
\* executor's stream and another has run to its end after yielding.
C14_Witness ==
    /\ manager
    /\ \E g \in 1..MaxGens, h \in 1..MaxGens :
           /\ g # h
           /\ gens[g].status = "failed" /\ gens[g].error \in StreamErrors
           /\ gens[h].status = "done" /\ Len(gens[h].yielded) >= 1

\* C15: a generator that has not been pulled has made no call of the
\* executor; a generator that has started holds its own call, made from its
\* own input, at its first pull and never again; a generator has returned
\* exactly when its executor stream has completed; and a generator that
\* returned or raised keeps its call, its stream, what it consumed and what
\* it yielded whatever is pulled afterwards.
C15_LazyRestartableNotResumable ==
    /\ [](\A g \in 1..MaxGens :
            /\ gens[g].status \in {"unborn", "created"} =>
                   /\ gens[g].call = None
                   /\ gens[g].stream = "none"
                   /\ gens[g].consumed = <<>>
                   /\ gens[g].yielded = <<>>
            /\ gens[g].stream # "none" =>
                   gens[g].call = stream_args(gens[g].input)
            /\ gens[g].status = "done" <=> gens[g].stream = "completed")
    /\ [][\A g \in 1..MaxGens :
            /\ gens'[g].call # gens[g].call =>
                   /\ gens[g].status = "created"
                   /\ gens'[g].status = "running"
                   /\ gens[g].call = None
            /\ IsPrefix(gens[g].consumed, gens'[g].consumed)
            /\ gens[g].status \in {"done", "failed"} =>
                   /\ gens'[g].status = gens[g].status
                   /\ gens'[g].call = gens[g].call
                   /\ gens'[g].stream = gens[g].stream
                   /\ gens'[g].consumed = gens[g].consumed
                   /\ gens'[g].yielded = gens[g].yielded]_vars

\* C15 witness: two calls with the same input each made their own executor
\* call; the first generator failed and was pulled again, the second
\* consumed its own stream from the start to its completion.
C15_Witness ==
    /\ gens[1].status = "failed" /\ gens[1].last = "StopIteration"
    /\ gens[1].call # None
    /\ gens[2].status = "done" /\ Len(gens[2].consumed) >= 1
    /\ gens[2].call = gens[1].call
    /\ gens[2].consumed # gens[1].consumed

====
